---- MODULE Spec2Model ----
(***************************************************************************)
(* A model of agent.py: the plan / code / test / refine loop run_agent,    *)
(* with the helpers it calls (get_llm_response, extract_python_code,       *)
(* save_parser, run_test_and_capture_output, generate_prompt) and the      *)
(* command-line entry point (Spec, FairSpec); of parse of                  *)
(* custom_parsers/icici_parser.py (ParseSpec); and of the validator script *)
(* tests/test_parser_template.py (ValidatorSpec).  Python strings are TLA+ *)
(* strings: Len, \o and SubSeq act on them character by character.         *)
(***************************************************************************)
EXTENDS Integers, Sequences, FiniteSets, TLC

(***************************************************************************)
(* Bounds of the model.                                                    *)
(***************************************************************************)
\* The longest run of white space the environment puts around a code body,
\* a model response or a validator output.
MaxPad == 1

\* The most rows a table handed to parse has.
MaxRows == 2

(***************************************************************************)
(* Configuration, agent.py lines 12-19.                                    *)
(***************************************************************************)
MAX_ATTEMPTS == 3

PathJoin(a, b) == a \o "/" \o b

PARSER_DIR == "custom_parsers"

TEST_SCRIPT == "tests/test_parser_template.py"

DATA_DIR == "data/icici"

PDF_PATH == PathJoin(DATA_DIR, "icici_sample.pdf")

CSV_PATH == PathJoin(DATA_DIR, "icici_expected.csv")

PARSER_PATH == PathJoin(PARSER_DIR, "icici_parser.py")

(***************************************************************************)
(* Strings.                                                                *)
(***************************************************************************)
\* The backquote character (it cannot be written inside a string literal).
BT == SubSeq("`'", 1, 1)

CharAt(s, i) == SubSeq(s, i, i)

\* str.startswith at an offset: s[i-1:].startswith(sub), i counted from 1.
StartsAt(s, sub, i) ==
    /\ i >= 1
    /\ i + Len(sub) - 1 <= Len(s)
    /\ SubSeq(s, i, i + Len(sub) - 1) = sub

\* Python's  sub in s.
Contains(s, sub) == \E i \in 1..(Len(s) + 1) : StartsAt(s, sub, i)

\* str.find from an offset: the least position >= from where sub occurs, 0 if none.
FindFrom(s, sub, from) ==
    LET hits == {i \in from..(Len(s) + 1) : StartsAt(s, sub, i)}
    IN  IF hits = {} THEN 0 ELSE CHOOSE i \in hits : \A j \in hits : i <= j

\* The characters str.strip() removes (of those the model's inputs use).
IsSpace(c) == c \in {" ", "\n", "\t", "\r"}

\* str.strip()
Strip(s) ==
    LET keep == {i \in 1..Len(s) : ~IsSpace(CharAt(s, i))}
    IN  IF keep = {} THEN ""
        ELSE SubSeq(s, CHOOSE i \in keep : \A j \in keep : i <= j,
                       CHOOSE i \in keep : \A j \in keep : i >= j)

LowerCaseLetters == "abcdefghijklmnopqrstuvwxyz"

UpperCaseLetters == "ABCDEFGHIJKLMNOPQRSTUVWXYZ"

\* One character mapped through a pair of alphabets.
MapChar(c, from, to) ==
    LET at == {i \in 1..Len(from) : CharAt(from, i) = c}
    IN  IF at = {} THEN c ELSE CharAt(to, CHOOSE i \in at : TRUE)

RECURSIVE MapStr(_, _, _)
MapStr(s, from, to) ==
    IF s = "" THEN ""
    ELSE MapChar(CharAt(s, 1), from, to) \o MapStr(SubSeq(s, 2, Len(s)), from, to)

\* str.lower()
Lower(s) == MapStr(s, UpperCaseLetters, LowerCaseLetters)

\* str.upper()
Upper(s) == MapStr(s, LowerCaseLetters, UpperCaseLetters)

\* sep.join(parts)
RECURSIVE Join(_, _)
Join(parts, sep) ==
    IF parts = <<>> THEN ""
    ELSE IF Len(parts) = 1 THEN parts[1]
    ELSE parts[1] \o sep \o Join(Tail(parts), sep)

\* n copies of c.
RECURSIVE Rep(_, _)
Rep(c, n) == IF n <= 0 THEN "" ELSE c \o Rep(c, n - 1)

(***************************************************************************)
(* read_pdf_text_for_prompt, agent.py lines 31-54.  A PDF file is the      *)
(* sequence of its pages' extracted texts ("" for a page without text), or *)
(* unreadable.  The inputs are ASCII, which re.sub leaves as they are.     *)
(***************************************************************************)
RECURSIVE PagesText(_)
PagesText(pages) ==
    IF pages = <<>> THEN ""
    ELSE (IF pages[1] # "" THEN pages[1] \o "\n" ELSE "") \o PagesText(Tail(pages))

PROMPT_SAMPLE_LIMIT == 3000

read_pdf_text_for_prompt(pdf) ==
    LET cleaned == Strip(PagesText(pdf.pages))
    IN  SubSeq(cleaned, 1, IF Len(cleaned) < PROMPT_SAMPLE_LIMIT
                           THEN Len(cleaned) ELSE PROMPT_SAMPLE_LIMIT)

(***************************************************************************)
(* get_llm_response, agent.py lines 57-71.  The outcome of the API call is *)
(* the environment's: a response text, an APIError or another exception.   *)
(***************************************************************************)
LLM_API_ERROR == "LLM_API_ERROR"

get_llm_response(call) ==
    CASE call.kind = "text"      -> call.text
      [] call.kind = "api_error" -> LLM_API_ERROR \o ": " \o call.text
      [] call.kind = "exception" -> LLM_API_ERROR \o ": Client failure: " \o call.text

(***************************************************************************)
(* extract_python_code, agent.py lines 73-78.                              *)
(***************************************************************************)
FENCE == BT \o BT \o BT

FENCE_OPEN == FENCE \o "python\n"

\* re.search(r"```python\n(.*?)```", response, re.DOTALL): the leftmost opening
\* fence, and the nearest closing fence after it.  0 when there is none.  (When
\* the leftmost opening fence has no closing fence after it, no later one has.)
FenceStart(response) == FindFrom(response, FENCE_OPEN, 1)

FenceEnd(response) ==
    IF FenceStart(response) = 0 THEN 0
    ELSE FindFrom(response, FENCE, FenceStart(response) + Len(FENCE_OPEN))

\* A variant of extract_python_code: the group is greedy and runs to the last fence.
extract_python_code_Greedy(response) ==
    IF FenceEnd(response) # 0
    THEN LET ends == {j \in FenceEnd(response)..Len(response) : StartsAt(response, FENCE, j)}
             groups == {SubSeq(response, FenceStart(response) + Len(FENCE_OPEN),
                                         (CHOOSE j \in ends : \A k \in ends : j >= k) - 1)}
         IN  CHOOSE code \in {Strip(group) : group \in groups} : TRUE
    ELSE Strip(response)

\* Lines 75-78: match.group(1).strip() when the pattern matches, response.strip()
\* otherwise.
extract_python_code(response) ==
    IF FenceEnd(response) # 0
    THEN LET groups == {SubSeq(response, FenceStart(response) + Len(FENCE_OPEN),
                                         FenceEnd(response) - 1)}
         IN  CHOOSE code \in {Strip(group) : group \in groups} : TRUE
    ELSE Strip(response)

(***************************************************************************)
(* save_parser, agent.py lines 80-95.                                      *)
(***************************************************************************)
required_imports == <<"import pandas as pd", "import pdfplumber", "import re">>

final_code(code) == Join(required_imports, "\n") \o "\n\n" \o code

\* A variant of OpenForWrite: the file is opened for appending, its content kept.
OpenForWrite_Append(fs, path) ==
    [p \in (DOMAIN fs) \cup {path} |-> IF p \in DOMAIN fs THEN fs[p] ELSE ""]

\* open(path, "w"): the file exists and is empty.
OpenForWrite(fs, path) ==
    [p \in (DOMAIN fs) \cup {path} |-> IF p = path THEN "" ELSE fs[p]]

\* A variant of WriteAndClose: the text is still in the buffer when the call returns.
WriteAndClose_Unflushed(fs, path, text) == fs

\* f.write(text) and the close at the end of the with block.
WriteAndClose(fs, path, text) == [fs EXCEPT ![path] = fs[path] \o text]

(***************************************************************************)
(* run_test_and_capture_output, agent.py lines 97-115.  p is the completed *)
(* subprocess: its return code and its two captured streams.               *)
(***************************************************************************)
SUCCESS_MARKER == "SUCCESS"

CapturedOutput(p) == p.stdout \o p.stderr

\* A variant of Verdict: the marker alone decides, the return code is ignored.
Verdict_MarkerOnly(p) ==
    IF Contains(CapturedOutput(p), SUCCESS_MARKER) THEN "PASS" ELSE "FAIL"

Verdict(p) ==
    IF p.returncode = 0 /\ Contains(CapturedOutput(p), SUCCESS_MARKER)
    THEN "PASS" ELSE "FAIL"

run_test_and_capture_output(p) == <<Verdict(p), CapturedOutput(p)>>

\* tests/test_parser_template.py line 14: the sample PDF the validator hands to parse.
TestPdfPath(bank_target) == "data/" \o bank_target \o "/" \o bank_target \o "_sample.pdf"

\* tests/test_parser_template.py line 15: the expected CSV the validator reads.
TestCsvPath(bank_target) == "data/" \o bank_target \o "/" \o bank_target \o "_expected.csv"

\* tests/test_parser_template.py line 17: the artifact the validator loads.
TestParserPath(bank_target) == "custom_parsers/" \o bank_target \o "_parser.py"

(***************************************************************************)
(* tests/test_parser_template.py line 29: exec_module loads the artifact   *)
(* through importlib's source loader, which keeps the compiled module in a *)
(* cache file beside it (CPython 3.11, bytecode writing on, the default).  *)
(* The cache records the size and the modification time, in whole seconds, *)
(* of the source it was compiled from, and is executed instead of the      *)
(* source while both still agree with the source file.                     *)
(***************************************************************************)
PycPath(bank_target) ==
    "custom_parsers/__pycache__/" \o bank_target \o "_parser.cpython-311.pyc"

\* The cache file of a source text.
Pyc(source) == [source_size |-> Len(source), code |-> source]

\* Of the artifacts save_parser writes here, those the compiler accepts.
CompilableArtifacts == {final_code("def parse(pdf_path): return None")}

\* The loader takes the cache: it is there, and the source has the size and,
\* same_second, the modification time the cache recorded.
CacheIsUsed(fs, bank_target, same_second) ==
    /\ PycPath(bank_target) \in DOMAIN fs
    /\ fs[PycPath(bank_target)].source_size = Len(fs[TestParserPath(bank_target)])
    /\ same_second

\* The text whose code the validator executes as the parser module: none when
\* the artifact's file is missing (FileNotFoundError), the cached one, or the
\* artifact's.
ExecutedSource(fs, bank_target, same_second) ==
    IF TestParserPath(bank_target) \notin DOMAIN fs THEN ""
    ELSE IF CacheIsUsed(fs, bank_target, same_second) THEN fs[PycPath(bank_target)].code
    ELSE fs[TestParserPath(bank_target)]

\* The files after exec_module: a source that was compiled is cached; a source
\* the compiler rejects (SyntaxError), a missing one and a used cache leave the
\* files as they were.
FilesAfterLoad(fs, bank_target, same_second) ==
    IF /\ TestParserPath(bank_target) \in DOMAIN fs
       /\ ~CacheIsUsed(fs, bank_target, same_second)
       /\ fs[TestParserPath(bank_target)] \in CompilableArtifacts
    THEN [p \in DOMAIN fs \cup {PycPath(bank_target)} |->
             IF p = PycPath(bank_target) THEN Pyc(fs[TestParserPath(bank_target)])
             ELSE fs[p]]
    ELSE fs

(***************************************************************************)
(* generate_prompt, agent.py lines 117-161.  A CSV file is the list of its *)
(* header's column names, or unreadable.                                   *)
(***************************************************************************)
FALLBACK_COLUMNS == <<"Date", "Description", "Withdrawal", "Deposit", "Balance">>

PromptColumns(csv) == IF csv.readable THEN csv.columns ELSE FALLBACK_COLUMNS

\* str() of a list of plain strings.
ListRepr(xs) == "[" \o Join([i \in 1..Len(xs) |-> "'" \o xs[i] \o "'"], ", ") \o "]"

base_prompt(target, pdf_text, csv) ==
    "\nYou are an expert \"Agent-as-Coder\" AI. Your goal is to write a Python parser for the bank statement PDF.\n"
    \o "\nCONTEXT:\n- **Target Bank:** " \o Upper(target)
    \o "\n- **Target Schema (Columns):** " \o ListRepr(PromptColumns(csv))
    \o ".\n- **PDF Raw Text Sample (for context):** --- START SAMPLE ---\n"
    \o pdf_text
    \o "\n--- END SAMPLE ---\n\nCONSTRAINTS:\n1.  **Tool Use:** You MUST use the "
    \o BT \o "pdfplumber" \o BT \o " library to handle tables robustly.\n"
    \o "2.  **Parser Contract (T3):** The file MUST define a single function: "
    \o BT \o "def parse(pdf_path: str) -> pd.DataFrame:" \o BT \o ".\n"
    \o "3.  **Data Transformation:** Map the input columns ('Debit Amt' and 'Credit Amt') to the target schema ('Withdrawal' and 'Deposit'). Missing values must be NaN. Dates must be standardized to YYYY-MM-DD format.\n"

INITIAL_TASK ==
    "\n**TASK:** Write the complete initial Python code for the function. Output ONLY the Python code block (using "
    \o FENCE \o "python ... " \o FENCE \o ")."

RefinementSection(previous_code, error_trace) ==
    "\n\nYour previous code attempt failed the automated tests. Analyze the **ERROR TRACE** and **PREVIOUS CODE** to identify and fix the bug.\n"
    \o "\nPREVIOUS CODE (FAILED):\n" \o FENCE \o "python\n" \o previous_code \o "\n" \o FENCE
    \o "\n\nERROR TRACE (OBSERVATION):\n" \o FENCE \o "\n" \o error_trace \o "\n" \o FENCE
    \o "\n\n**INSTRUCTIONS:** Write the complete, fixed Python code block containing ONLY the "
    \o BT \o "parse" \o BT \o " function and necessary helpers. Do not include commentary.\n"

\* A variant of generate_prompt: the refinement branch is missing.
generate_prompt_NoFeedback(target, pdf_text, csv, is_initial, previous_code, error_trace) ==
    base_prompt(target, pdf_text, csv) \o INITIAL_TASK

generate_prompt(target, pdf_text, csv, is_initial, previous_code, error_trace) ==
    IF is_initial
    THEN base_prompt(target, pdf_text, csv) \o INITIAL_TASK
    ELSE base_prompt(target, pdf_text, csv) \o RefinementSection(previous_code, error_trace)

(***************************************************************************)
(* The environment's inputs.                                               *)
(***************************************************************************)
\* Command lines: no --target, or --target with a name.
CommandLines == {<<>>, <<"--target", "ICICI">>, <<"--target", "sbi">>}

\* The process environment: GEMINI_API_KEY unset, empty or set.
Environments == {<<>>, [GEMINI_API_KEY |-> ""], [GEMINI_API_KEY |-> "key"]}

PdfFiles == {[readable |-> FALSE, pages |-> <<>>],
             [readable |-> TRUE, pages |-> <<" 01-08-2024 Salary 1000.00 ", "">>]}

CsvFiles == {[readable |-> FALSE, columns |-> <<>>],
             [readable |-> TRUE,
              columns |-> <<"Date", "Description", "Debit Amt", "Credit Amt", "Balance">>]}

TestScriptFile == "test_parser_template"

STALE_PARSER == "# parser of an earlier run\n"

\* The file systems a run may start in: any of the three fixtures may be missing,
\* and the artifact of an earlier run may be there (without a cache of it).
FixtureSets ==
    {[p \in ps |-> CASE p = PDF_PATH    -> pdf
                     [] p = CSV_PATH    -> csv
                     [] p = TEST_SCRIPT -> TestScriptFile
                     [] p = PARSER_PATH -> STALE_PARSER] :
        ps \in SUBSET {PDF_PATH, CSV_PATH, TEST_SCRIPT, PARSER_PATH},
        pdf \in PdfFiles, csv \in CsvFiles}

Pads == {Rep("\n", k) : k \in 0..MaxPad}

CodeBodies == {"def parse(pdf_path): return None", "# LLM_API_ERROR handled"}

\* What the model may answer: a fenced block (with text around it, padded inside),
\* bare code, a blank answer, a blank block, an unclosed block, two blocks.
ResponseTexts ==
    {"Here is the parser:\n" \o FENCE_OPEN \o pad \o "def parse(pdf_path): return None"
        \o pad \o FENCE \o "\nDone." : pad \in Pads}
    \cup {pad \o body \o pad : pad \in Pads, body \in CodeBodies}
    \cup {pad \o " " : pad \in Pads}
    \cup {FENCE_OPEN \o pad \o FENCE : pad \in Pads}
    \cup {FENCE_OPEN \o "def parse(pdf_path, n=" \o pad : pad \in Pads}
    \cup {FENCE_OPEN \o "def parse(pdf_path): return None" \o pad \o FENCE \o " or\n"
             \o FENCE_OPEN \o "import sys\n" \o FENCE : pad \in Pads}

\* Outcomes of the API call.
LlmCalls ==
    {[kind |-> "text", text |-> t] : t \in ResponseTexts}
    \cup {[kind |-> "api_error", text |-> "429 RESOURCE_EXHAUSTED"],
          [kind |-> "exception", text |-> "connection reset"]}

ValidatorStdouts == {"\nSUCCESS: Parser output matches expected CSV (T4).\n",
                     "\nFAIL: column mismatch\n", "SUC"}

ValidatorStderrs == {"", "CESS"}

\* Outcomes of the validator subprocess.
CompletedProcesses ==
    {[returncode |-> rc, stdout |-> out, stderr |-> err] :
        rc \in {0, 1}, out \in ValidatorStdouts, err \in ValidatorStderrs}

(***************************************************************************)
(* custom_parsers/icici_parser.py: parse.  A cell that pdfplumber extracts *)
(* is None, written <<>>, or a string s, written <<s>>.  A number is NaN   *)
(* or an amount counted in hundredths.                                     *)
(***************************************************************************)
NoCell == <<>>

Cell(s) == <<s>>

NaN == [nan |-> TRUE, cents |-> 0]

Num(c) == [nan |-> FALSE, cents |-> c]

\* The marker of a date that could not be parsed.
NaT == "NaT"

Digits == "0123456789"

IsDigit(c) == \E i \in 1..Len(Digits) : CharAt(Digits, i) = c

AllDigits(s) == s # "" /\ \A i \in 1..Len(s) : IsDigit(CharAt(s, i))

\* int(s) of a run of digits; 0 for the empty run.
RECURSIVE ToNat(_)
ToNat(s) ==
    IF s = "" THEN 0
    ELSE ToNat(SubSeq(s, 1, Len(s) - 1)) * 10 + (FindFrom(Digits, CharAt(s, Len(s)), 1) - 1)

\* s.lstrip()
LStrip(s) ==
    LET keep == {i \in 1..Len(s) : ~IsSpace(CharAt(s, i))}
    IN  IF keep = {} THEN ""
        ELSE SubSeq(s, CHOOSE i \in keep : \A j \in keep : i <= j, Len(s))

\* re.sub(r'\s+', ' ', s)
RECURSIVE SqueezeSpaces(_)
SqueezeSpaces(s) ==
    IF s = "" THEN ""
    ELSE IF IsSpace(CharAt(s, 1))
    THEN " " \o SqueezeSpaces(LStrip(s))
    ELSE CharAt(s, 1) \o SqueezeSpaces(SubSeq(s, 2, Len(s)))

pdf_header_columns == <<"Date", "Description", "Debit Amt", "Credit Amt", "Balance">>

target_schema_columns == <<"Date", "Description", "Withdrawal", "Deposit", "Balance">>

\* Line 35.
CleanRow(row) ==
    [i \in 1..Len(row) |-> IF row[i] = NoCell THEN "" ELSE Strip(row[i][1])]

\* Line 42.
NormalizeForHeaderCheck(cleaned_row) ==
    [i \in 1..Len(cleaned_row) |-> Strip(SqueezeSpaces(cleaned_row[i]))]

\* re.match(r'^\d{2}-\d{2}-\d{4}$', s), for s without a line break.
MatchesDate(s) ==
    /\ Len(s) = 10
    /\ \A i \in {1, 2, 4, 5, 7, 8, 9, 10} : IsDigit(CharAt(s, i))
    /\ CharAt(s, 3) = "-"
    /\ CharAt(s, 6) = "-"

\* Lines 38-50: whether a cleaned row is collected as a transaction.
IsTransactionRow(cleaned_row) ==
    /\ \E i \in 1..Len(cleaned_row) : cleaned_row[i] # ""
    /\ NormalizeForHeaderCheck(cleaned_row) # pdf_header_columns
    /\ Len(cleaned_row) = 5
    /\ MatchesDate(cleaned_row[1])

IsLeap(y) == (y % 4 = 0 /\ y % 100 # 0) \/ y % 400 = 0

DaysIn(m, y) ==
    IF m = 2 THEN (IF IsLeap(y) THEN 29 ELSE 28)
    ELSE IF m \in {4, 6, 9, 11} THEN 30 ELSE 31

\* Line 68: pd.to_datetime(format='%d-%m-%Y', errors='coerce') and then
\* strftime('%Y-%m-%d'), of a string that MatchesDate; the dates a Timestamp holds
\* run from 1677-09-22 to 2262-04-11.
ToIsoDate(s) ==
    LET d == ToNat(SubSeq(s, 1, 2))
        m == ToNat(SubSeq(s, 4, 5))
        y == ToNat(SubSeq(s, 7, 10))
        stamp == y * 10000 + m * 100 + d
    IN  IF /\ m \in 1..12
           /\ d \in 1..DaysIn(m, y)
           /\ stamp >= 16770922
           /\ stamp <= 22620411
        THEN SubSeq(s, 7, 10) \o "-" \o SubSeq(s, 4, 5) \o "-" \o SubSeq(s, 1, 2)
        ELSE NaT

\* Lines 74-75: replace('', pd.NA) and pd.to_numeric(errors='coerce'), of the
\* decimal forms [sign] digits [. one or two digits]; any other text the inputs
\* carry is not a number.
ToNumeric(s) ==
    LET signed == StartsAt(s, "-", 1) \/ StartsAt(s, "+", 1)
        body   == IF signed THEN SubSeq(s, 2, Len(s)) ELSE s
        dot    == FindFrom(body, ".", 1)
        whole  == IF dot = 0 THEN body ELSE SubSeq(body, 1, dot - 1)
        frac   == IF dot = 0 THEN "" ELSE SubSeq(body, dot + 1, Len(body))
        cents  == ToNat(whole) * 100
                    + (IF Len(frac) = 1 THEN ToNat(frac) * 10 ELSE ToNat(frac))
    IN  IF /\ AllDigits(whole)
           /\ dot = 0 \/ (Len(frac) \in 1..2 /\ AllDigits(frac))
        THEN Num(IF StartsAt(s, "-", 1) THEN 0 - cents ELSE cents)
        ELSE NaN

\* Lines 63-86 for one collected row.
ConvertRow(r) ==
    [Date        |-> ToIsoDate(r[1]),
     Description |-> r[2],
     Withdrawal  |-> ToNumeric(r[3]),
     Deposit     |-> ToNumeric(r[4]),
     Balance     |-> ToNumeric(r[5])]

\* parse(pdf_path), lines 9-88, of the rows of the tables of the PDF in page order.
\* A frame is the sequence of its rows, each a record over target_schema_columns.
parse(rows) ==
    LET cleaned == [i \in 1..Len(rows) |-> CleanRow(rows[i])]
        all_transactions_data == SelectSeq(cleaned, IsTransactionRow)
        converted == [i \in 1..Len(all_transactions_data) |->
                         ConvertRow(all_transactions_data[i])]
        Dated(r) == r.Date # NaT
    IN  IF all_transactions_data = <<>> THEN <<>>
        ELSE SelectSeq(converted, Dated)

\* The rows a statement's tables may hold: a deposit, a withdrawal with padding and
\* a missing cell, a zero amount, a negative amount, a header, a blank row, a short
\* row, a date that is no day of the calendar, amounts that are not numbers.
TableRows ==
    {<<Cell("01-08-2024"), Cell("Salary"), Cell(""), Cell("5000.00"), Cell("6000.00")>>,
     <<Cell(" 02-08-2024 "), Cell("ATM  Cash"), Cell("200.5"), NoCell, Cell("5799.50\n")>>,
     <<Cell("03-08-2024"), Cell("Reversal"), Cell("0.00"), Cell(""), Cell("5799.50")>>,
     <<Cell("04-08-2024"), Cell("Adjustment"), Cell(""), Cell("-50.00"), Cell("5749.50")>>,
     <<Cell("Date"), Cell("Description"), Cell("Debit  Amt"), Cell("Credit\nAmt"),
       Cell(" Balance")>>,
     <<Cell(""), NoCell, Cell(" "), Cell(""), NoCell>>,
     <<Cell("05-08-2024"), Cell("Page 1 of 2"), Cell("1.00"), Cell("2.00")>>,
     <<Cell("31-02-2024"), Cell("Fee"), Cell("1.00"), Cell(""), Cell("5748.50")>>,
     <<Cell("06-08-2024"), Cell("Fee"), Cell("1,000.00"), Cell("n/a"), Cell("4748.50")>>}

RECURSIVE SeqsUpTo(_, _)
SeqsUpTo(S, n) ==
    IF n = 0 THEN {<<>>}
    ELSE LET shorter == SeqsUpTo(S, n - 1)
         IN  shorter \cup {Append(q, x) : q \in shorter, x \in S}

Tables == SeqsUpTo(TableRows, MaxRows)

(***************************************************************************)
(* tests/test_parser_template.py: run_test.  A date is the number          *)
(* year * 10000 + month * 100 + day, 0 when it is NaT.                     *)
(***************************************************************************)
\* str.replace(',', '', regex=False)
RECURSIVE RemoveCommas(_)
RemoveCommas(s) ==
    IF s = "" THEN ""
    ELSE (IF CharAt(s, 1) = "," THEN "" ELSE CharAt(s, 1))
            \o RemoveCommas(SubSeq(s, 2, Len(s)))

\* Line 58: pd.to_datetime(format='%d-%m-%Y', errors='coerce') of a CSV cell.
ExpectedDate(s) ==
    IF MatchesDate(s) /\ ToIsoDate(s) # NaT
    THEN ToNat(SubSeq(s, 7, 10)) * 10000 + ToNat(SubSeq(s, 4, 5)) * 100
            + ToNat(SubSeq(s, 1, 2))
    ELSE 0

\* Line 59: pd.to_datetime(errors='coerce') of a text in the form YYYY-MM-DD.
ActualDate(s) ==
    IF /\ Len(s) = 10
       /\ \A i \in {1, 2, 3, 4, 6, 7, 9, 10} : IsDigit(CharAt(s, i))
       /\ CharAt(s, 5) = "-"
       /\ CharAt(s, 8) = "-"
       /\ ToIsoDate(SubSeq(s, 9, 10) \o "-" \o SubSeq(s, 6, 7) \o "-" \o SubSeq(s, 1, 4)) # NaT
    THEN ToNat(SubSeq(s, 1, 4)) * 10000 + ToNat(SubSeq(s, 6, 7)) * 100
            + ToNat(SubSeq(s, 9, 10))
    ELSE 0

\* Lines 70, 72: replace(0.00, pd.NA).astype(float) of a column.  A zero is
\* replaced by pd.NA, the column is then of dtype object, and astype(float) raises
\* TypeError; a column without a zero is left as it is.
AstypeFloatRaises(column) ==
    \E i \in 1..Len(column) : ~column[i].nan /\ column[i].cents = 0

\* Lines 66: the amounts of a column of the expected CSV.
ExpectedAmounts(csv_rows, k) ==
    [i \in 1..Len(csv_rows) |-> ToNumeric(RemoveCommas(csv_rows[i][k]))]

\* Lines 63-72: the line at which the numeric standardization raises TypeError,
\* 0 when it does not.  Withdrawal comes before Deposit, and in each the expected
\* column (line 70) before the actual one (line 72).
StandardizationRaisesAt(csv_rows, frame) ==
    IF AstypeFloatRaises(ExpectedAmounts(csv_rows, 3)) THEN 70
    ELSE IF AstypeFloatRaises([i \in 1..Len(frame) |-> frame[i].Withdrawal]) THEN 72
    ELSE IF AstypeFloatRaises(ExpectedAmounts(csv_rows, 4)) THEN 70
    ELSE IF AstypeFloatRaises([i \in 1..Len(frame) |-> frame[i].Deposit]) THEN 72
    ELSE 0

\* Lines 39-78 for one record of the expected CSV, its cells in the order of the
\* target schema, when no line raises.
StandardizeExpected(r) ==
    [Date        |-> ExpectedDate(r[1]),
     Description |-> Strip(SqueezeSpaces(r[2])),
     Withdrawal  |-> ToNumeric(RemoveCommas(r[3])),
     Deposit     |-> ToNumeric(RemoveCommas(r[4])),
     Balance     |-> ToNumeric(RemoveCommas(r[5]))]

\* Lines 59, 72, 78 for one row of the frame the parser returned, when no line
\* raises.
StandardizeActual(r) ==
    [Date        |-> ActualDate(r.Date),
     Description |-> Strip(SqueezeSpaces(r.Description)),
     Withdrawal  |-> r.Withdrawal,
     Deposit     |-> r.Deposit,
     Balance     |-> r.Balance]

\* Lines 82-89: whether assert_frame_equal returns, for amounts that are equal or
\* differ by more than its tolerance.
FramesEqual(csv_rows, frame) ==
    /\ Len(csv_rows) = Len(frame)
    /\ \A i \in 1..Len(frame) : StandardizeExpected(csv_rows[i]) = StandardizeActual(frame[i])

RUNNING_TEST(bank_target) == "--- Running Test for " \o Upper(bank_target) \o " ---\n"

USAGE == "Usage: python test_parser_template.py <bank_target>\n"

SUCCESS_LINE == "\nSUCCESS: Parser output matches expected CSV (T4).\n"

\* Line 94.
FAIL_HEADING == "\nFAIL: Assertion failed: DataFrame content mismatch. (T4)\n"

\* Line 95.
EXPECTED_HEADING == "\n--- Expected Data Head ---\n"

\* Line 97.
ACTUAL_HEADING == "\n--- Actual Data Head ---\n"

\* Line 104.
RUNTIME_HEADING == "\nRUNTIME ERROR during test execution:\n"

\* The directory the script is run in, kept symbolic; the interpreter names the
\* files of a traceback by their absolute paths.
WORKDIR == "<dir>"

SCRIPT_FILE == WORKDIR \o "/tests/test_parser_template.py"

ArtifactFile(bank_target) == WORKDIR \o "/" \o TestParserPath(bank_target)

\* The text of a traceback, as CPython 3.11 prints it: its first line, the line
\* that names a frame, the lines between two chained tracebacks.
TB_HEAD == "Traceback (most recent call last):\n"

Frame(file, line, where) ==
    "  File \"" \o file \o "\", line " \o ToString(line) \o ", in " \o where \o "\n"

TB_CHAINED == "\nDuring handling of the above exception, another exception occurred:\n\n"

IMPORTLIB_FRAMES ==
    "  File \"<frozen importlib._bootstrap_external>\", line 940, in exec_module\n"
        \o "  File \"<frozen importlib._bootstrap>\", line 241, in _call_with_frames_removed\n"

\* What the interpreter prints to stderr when a handler of run_test itself raises
\* UnboundLocalError while it handles the exception whose traceback is first.
\* Line 100 imports traceback inside run_test, so the name is local to the whole
\* function and unbound at line 105; df_expected is unbound at line 96 when the
\* AssertionError came before line 39.
UnboundInRuntimeHandler(first) ==
    first \o TB_CHAINED \o TB_HEAD
        \o Frame(SCRIPT_FILE, 114, "<module>") \o "    run_test(sys.argv[1])\n"
        \o Frame(SCRIPT_FILE, 105, "run_test")
        \o "    traceback.print_exc(file=sys.stdout)\n    ^^^^^^^^^\n"
        \o "UnboundLocalError: cannot access local variable 'traceback' where it is "
        \o "not associated with a value\n"

UnboundInAssertionHandler(first) ==
    first \o TB_CHAINED \o TB_HEAD
        \o Frame(SCRIPT_FILE, 114, "<module>") \o "    run_test(sys.argv[1])\n"
        \o Frame(SCRIPT_FILE, 96, "run_test")
        \o "    print(df_expected.head().to_string())\n          ^^^^^^^^^^^\n"
        \o "UnboundLocalError: cannot access local variable 'df_expected' where it is "
        \o "not associated with a value\n"

\* The frames of the artifact and the line of its exception, in a traceback.
ArtifactFrames(a, bank_target) ==
    Frame(ArtifactFile(bank_target), a.line, IF a.at = "load" THEN "<module>" ELSE "parse")
        \o "    " \o a.statement \o "\n" \o a.error

\* The traceback of an exception the artifact raises when it is loaded (line 29).
LoadTraceback(a, bank_target) ==
    TB_HEAD \o Frame(SCRIPT_FILE, 29, "run_test")
        \o "    spec.loader.exec_module(parser_module)\n"
        \o IMPORTLIB_FRAMES \o ArtifactFrames(a, bank_target)

\* The traceback of an exception the artifact raises when parse is called (line 36).
CallTraceback(a, bank_target) ==
    TB_HEAD \o Frame(SCRIPT_FILE, 36, "run_test")
        \o "    df_actual = parse_func(str(pdf_path))\n"
        \o "                ^^^^^^^^^^^^^^^^^^^^^^^^^\n"
        \o ArtifactFrames(a, bank_target)

\* The traceback of the AttributeError of line 33.
NoParseTraceback(bank_target) ==
    TB_HEAD \o Frame(SCRIPT_FILE, 33, "run_test")
        \o "    raise AttributeError(f\"Parser {parser_module_name} must define a "
        \o "'parse(pdf_path)' function (T3).\")\n"
        \o "AttributeError: Parser custom_parsers." \o bank_target
        \o "_parser must define a 'parse(pdf_path)' function (T3).\n"

\* The traceback of the TypeError of line 70 or 72, with the frames pandas adds.
TypeErrorTraceback(line, pandas_frames) ==
    TB_HEAD \o Frame(SCRIPT_FILE, line, "run_test")
        \o (IF line = 70
            THEN "    df_expected[col] = df_expected[col].replace(0.00, pd.NA).astype(float)\n"
                 \o "                       " \o Rep("^", 51) \o "\n"
            ELSE "    df_actual[col] = df_actual[col].replace(0.00, pd.NA).astype(float) \n"
                 \o "                     " \o Rep("^", 49) \o "\n")
        \o pandas_frames
        \o "TypeError: float() argument must be a string or a real number, not 'NAType'\n"

\* Lines 94-101: the report of a failed comparison, with the texts pandas gives
\* for the heads of the two frames and for its part of the traceback.
FailReport(expected_head, actual_head, pandas_tail) ==
    FAIL_HEADING \o EXPECTED_HEADING \o expected_head \o "\n"
        \o ACTUAL_HEADING \o actual_head \o "\n"
        \o TB_HEAD \o Frame(SCRIPT_FILE, 82, "run_test")
        \o "    pd.testing.assert_frame_equal(\n" \o pandas_tail

\* The texts of pandas, which are not computed here: what to_string() gives for
\* the head of a frame (never the empty text), the frames of pandas in a
\* traceback, and those frames followed by the line of the AssertionError.
HeadTexts ==
    {"Empty DataFrame\nColumns: [Date, Description, Withdrawal, Deposit, Balance]\nIndex: []",
     "<head>"}

PandasFrames == {"  File \"<pandas>\", line 1, in astype\n"}

PandasAssertionTails ==
    {"  File \"<pandas>\", line 1, in assert_frame_equal\nAssertionError: DataFrame are different\n"}

\* Line 59 hands infer_datetime_format to pd.to_datetime, an argument pandas has
\* deprecated since 2.0: to_datetime warns before it converts anything, and the
\* interpreter writes the warning to stderr with the file, the line and the
\* stripped text of line 59.
INFER_DATETIME_WARNING ==
    SCRIPT_FILE \o ":59: UserWarning: The argument 'infer_datetime_format' is deprecated "
        \o "and will be removed in a future version. A strict version of it is now the "
        \o "default, see https://pandas.pydata.org/pdeps/0004-consistent-to-datetime-parsing.html. "
        \o "You can safely remove this argument.\n"
        \o "  df_actual[col] = pd.to_datetime(df_actual[col], errors='coerce', "
        \o "infer_datetime_format=True) # Actual is parsed by LLM code\n"

\* What line 59 leaves on stderr: the warning, or nothing with a pandas before 2.0
\* or when the environment the subprocess inherits filters warnings
\* (PYTHONWARNINGS=ignore).
DatetimeWarnings == {INFER_DATETIME_WARNING, ""}

\* The command lines of the script: without and with a target.
ScriptCommandLines == {<<>>, <<"icici">>}

\* What the module at custom_parsers/<target>_parser.py does: it is the parser of
\* this repository; it defines no parse; it raises an exception (ValueError, or
\* AssertionError), or calls sys.exit after printing some text, when it is loaded
\* or when parse is called.  For a module that raises: the line and the text of
\* the raising statement, and the line the interpreter prints for the exception.
Artifacts ==
    {[kind |-> "parser", at |-> "call", code |-> 0, prints |-> "",
      line |-> 0, statement |-> "", error |-> ""],
     [kind |-> "no_parse", at |-> "load", code |-> 0, prints |-> "",
      line |-> 0, statement |-> "", error |-> ""],
     [kind |-> "raises", at |-> "load", code |-> 0, prints |-> "",
      line |-> 1, statement |-> "raise ValueError(\"boom\")", error |-> "ValueError: boom\n"],
     [kind |-> "raises", at |-> "call", code |-> 0, prints |-> "",
      line |-> 2, statement |-> "raise ValueError(\"boom\")", error |-> "ValueError: boom\n"],
     [kind |-> "asserts", at |-> "load", code |-> 0, prints |-> "",
      line |-> 1, statement |-> "raise AssertionError(\"a\")", error |-> "AssertionError: a\n"],
     [kind |-> "asserts", at |-> "call", code |-> 0, prints |-> "",
      line |-> 2, statement |-> "assert False", error |-> "AssertionError\n"]}
    \cup {[kind |-> "exits", at |-> a, code |-> c, prints |-> t,
           line |-> 0, statement |-> "", error |-> ""] :
             a \in {"load", "call"}, c \in {0, 1}, t \in {"", "SUCCESS\n"}}

\* The records of data/<target>/<target>_expected.csv.
ExpectedCsvs ==
    {<< <<"01-08-2024", "Salary", "", "5000.00", "6000.00">>,
        <<"02-08-2024", " ATM Cash", "200.50", "", "5799.50">> >>,
     << <<"06-08-2024", "Fee", "1,000.00", "", "4748.50">> >>,
     << <<"03-08-2024", "Reversal", "0.00", "", "5799.50">> >>}

(***************************************************************************)
(* The state.                                                              *)
(***************************************************************************)
VARIABLES
    argv,            \* the command line after the program name
    environ,         \* os.environ
    files,           \* the file system: path -> content
    pc,              \* where the process is
    target,          \* run_agent's argument
    pdf_text,        \* line 180
    attempts,        \* line 186
    previous_code,   \* line 187
    error_trace,     \* line 188
    is_initial,      \* line 195
    prompt,          \* line 197
    llm_output,      \* line 200
    generated_code,  \* line 206
    result,          \* line 218
    output,          \* line 218
    console,         \* the reports printed, in order
    exit_code,       \* the process exit status (-1 while it runs)
    outcome,         \* how the run ended, in the words of the controller's state machine
    log,             \* the external operations performed, in order
    proc,            \* line 103: the completed validator subprocess
    hist,            \* per completed validation: the code tested, the verdict, the diagnostic
    writes,          \* per completed save_parser call: the path and the code it was given
    llm_failed,      \* whether the last API call raised
    pdf_tables,      \* icici_parser.py: the rows of the tables parse reads
    df,              \* icici_parser.py: the frame parse returned
    script_argv,     \* test_parser_template.py: sys.argv[1:]
    artifact,        \* test_parser_template.py: what the parser module it loads does
    expected_csv,    \* test_parser_template.py: the records of the expected CSV
    df_actual,       \* test_parser_template.py line 36
    script_stdout,   \* test_parser_template.py: what was printed so far
    marker_printed   \* test_parser_template.py: whether line 90 was executed

vars == <<argv, environ, files, pc, target, pdf_text, attempts, previous_code,
          error_trace, is_initial, prompt, llm_output, generated_code, result,
          output, console, exit_code, outcome, log, proc, hist, writes, llm_failed,
          pdf_tables, df, script_argv, artifact, expected_csv, df_actual,
          script_stdout, marker_printed>>

\* The state of icici_parser.py.
parse_vars == <<pdf_tables, df>>

\* The state of test_parser_template.py.
script_vars == <<script_argv, artifact, expected_csv, df_actual, script_stdout,
                 marker_printed>>

\* What no step of agent.py changes: its command line and environment, and the
\* state of the other programs.
env_vars == <<argv, environ, parse_vars, script_vars>>

loop_vars == <<attempts, previous_code, error_trace>>

\* agent.py before its first step, apart from its inputs.
AgentFresh ==
    /\ target = ""
    /\ pdf_text = ""
    /\ attempts = 0
    /\ previous_code = ""
    /\ error_trace = ""
    /\ is_initial = TRUE
    /\ prompt = ""
    /\ llm_output = ""
    /\ generated_code = ""
    /\ result = ""
    /\ output = ""
    /\ console = <<>>
    /\ exit_code = -1
    /\ outcome = "RUNNING"
    /\ log = <<>>
    /\ proc = [returncode |-> 0, stdout |-> "", stderr |-> ""]
    /\ hist = <<>>
    /\ writes = <<>>
    /\ llm_failed = FALSE

\* icici_parser.py not running.
ParseIdle ==
    /\ pdf_tables = <<>>
    /\ df = <<>>

\* test_parser_template.py not running.
ScriptIdle ==
    /\ script_argv = <<>>
    /\ artifact = [kind |-> "parser", at |-> "call", code |-> 0, prints |-> ""]
    /\ expected_csv = <<>>
    /\ df_actual = <<>>
    /\ script_stdout = ""
    /\ marker_printed = FALSE

Init ==
    /\ argv \in CommandLines
    /\ environ \in Environments
    /\ files \in FixtureSets
    /\ pc = "main"
    /\ AgentFresh
    /\ ParseIdle
    /\ ScriptIdle

\* sys.exit(code), or the process ending: nothing runs afterwards.
Exit(code, how, report) ==
    /\ pc' = "done"
    /\ exit_code' = code
    /\ outcome' = how
    /\ console' = console \o report

Exists(path) == path \in DOMAIN files

KeyMissing == "GEMINI_API_KEY" \notin DOMAIN environ \/ environ["GEMINI_API_KEY"] = ""

(***************************************************************************)
(* __main__, agent.py lines 239-248.                                       *)
(***************************************************************************)
Main ==
    /\ pc = "main"
    /\ IF argv = <<>>
       THEN /\ Exit(2, "USAGE_ERROR", <<"usage">>)
            /\ UNCHANGED target
       ELSE IF KeyMissing
       THEN /\ Exit(1, "CONFIG_ERROR", <<"ERROR: GEMINI_API_KEY environment variable not set.">>)
            /\ UNCHANGED target
       ELSE /\ target' = Lower(argv[2])
            /\ pc' = "run_agent"
            /\ UNCHANGED <<exit_code, outcome, console>>
    /\ UNCHANGED <<env_vars, files, pdf_text, loop_vars, is_initial, prompt, llm_output,
                   generated_code, result, output, log, proc, hist, writes, llm_failed>>

(***************************************************************************)
(* run_agent, agent.py lines 165-236.                                      *)
(***************************************************************************)
\* Lines 167-176: the fixture check.
CheckFiles ==
    /\ pc = "run_agent"
    /\ IF ~(Exists(PDF_PATH) /\ Exists(CSV_PATH) /\ Exists(TEST_SCRIPT))
       THEN Exit(1, "CONFIG_ERROR", <<"Error: Missing required files">>)
       ELSE /\ pc' = "read_pdf"
            /\ UNCHANGED <<exit_code, outcome, console>>
    /\ UNCHANGED <<env_vars, files, target, pdf_text, loop_vars, is_initial, prompt,
                   llm_output, generated_code, result, output, log, proc, hist, writes, llm_failed>>

\* Lines 178-188: the context sample, then the loop's initial state.
ReadPdf ==
    /\ pc = "read_pdf"
    /\ IF ~files[PDF_PATH].readable
       THEN /\ Exit(1, "CONFIG_ERROR", <<"Critical Error: Failed to extract text from PDF">>)
            /\ UNCHANGED <<pdf_text, loop_vars>>
       ELSE /\ pdf_text' = read_pdf_text_for_prompt(files[PDF_PATH])
            /\ attempts' = 0
            /\ previous_code' = ""
            /\ error_trace' = ""
            /\ pc' = "loop"
            /\ UNCHANGED <<exit_code, outcome, console>>
    /\ UNCHANGED <<env_vars, files, target, is_initial, prompt, llm_output,
                   generated_code, result, output, log, proc, hist, writes, llm_failed>>

\* A variant of LoopTest: the counter is compared one too high, the last attempt is lost.
LoopTest_OffByOne ==
    /\ pc = "loop"
    /\ IF attempts + 1 < MAX_ATTEMPTS
       THEN /\ pc' = "generate"
            /\ UNCHANGED outcome
       ELSE /\ pc' = "final"
            /\ outcome' = "EXHAUSTED"
    /\ UNCHANGED <<env_vars, files, target, pdf_text, loop_vars, is_initial, prompt,
                   llm_output, generated_code, result, output, console, exit_code,
                   log, proc, hist, writes, llm_failed>>

\* A variant of LoopTest: while True.
LoopTest_NoBudget ==
    /\ pc = "loop"
    /\ pc' = "generate"
    /\ UNCHANGED <<env_vars, files, target, pdf_text, loop_vars, is_initial, prompt,
                   llm_output, generated_code, result, output, console, exit_code, outcome,
                   log, proc, hist, writes, llm_failed>>

\* Line 191: the loop test.  Leaving the loop here is exhaustion of the budget.
LoopTest ==
    /\ pc = "loop"
    /\ IF attempts < MAX_ATTEMPTS
       THEN /\ pc' = "generate"
            /\ UNCHANGED outcome
       ELSE /\ pc' = "final"
            /\ outcome' = "EXHAUSTED"
    /\ UNCHANGED <<env_vars, files, target, pdf_text, loop_vars, is_initial, prompt,
                   llm_output, generated_code, result, output, console, exit_code,
                   log, proc, hist, writes, llm_failed>>

\* Lines 192-200: the prompt is built from the feedback context, the model is called.
Generate ==
    /\ pc = "generate"
    /\ is_initial' = (attempts = 0)
    /\ prompt' = generate_prompt(target, pdf_text, files[CSV_PATH], attempts = 0,
                                 previous_code, error_trace)
    /\ \E call \in LlmCalls :
          /\ llm_output' = get_llm_response(call)
          /\ llm_failed' = (call.kind # "text")
    /\ log' = Append(log, "llm")
    /\ pc' = "check_output"
    /\ UNCHANGED <<env_vars, files, target, pdf_text, loop_vars, generated_code,
                   result, output, console, exit_code, outcome, proc, hist, writes>>

\* A variant of CheckOutput: the check for empty code is missing.
CheckOutput_NoEmptyCheck ==
    /\ pc = "check_output"
    /\ IF Contains(llm_output, LLM_API_ERROR)
       THEN /\ console' = Append(console, "LLM failed to respond: " \o llm_output \o ". Aborting.")
            /\ outcome' = "ABORTED"
            /\ pc' = "final"
            /\ UNCHANGED generated_code
       ELSE /\ generated_code' = extract_python_code(llm_output)
            /\ pc' = "save_open"
            /\ UNCHANGED <<console, outcome>>
    /\ UNCHANGED <<env_vars, files, target, pdf_text, loop_vars, is_initial, prompt,
                   llm_output, result, output, exit_code, log, proc, hist, writes, llm_failed>>

\* Lines 202-210: the two aborts, and the extraction between them.
CheckOutput ==
    /\ pc = "check_output"
    /\ IF Contains(llm_output, LLM_API_ERROR)
       THEN /\ console' = Append(console, "LLM failed to respond: " \o llm_output \o ". Aborting.")
            /\ outcome' = "ABORTED"
            /\ pc' = "final"
            /\ UNCHANGED generated_code
       ELSE /\ generated_code' = extract_python_code(llm_output)
            /\ IF Strip(generated_code') = ""
               THEN /\ console' = Append(console, "[AGENT] Error: LLM returned empty or unparseable code block. Aborting.")
                    /\ outcome' = "ABORTED"
                    /\ pc' = "final"
               ELSE /\ pc' = "save_open"
                    /\ UNCHANGED <<console, outcome>>
    /\ UNCHANGED <<env_vars, files, target, pdf_text, loop_vars, is_initial, prompt,
                   llm_output, result, output, exit_code, log, proc, hist, writes, llm_failed>>

\* Lines 213, 82, 94: save_parser opens the artifact for writing.
SaveOpen ==
    /\ pc = "save_open"
    /\ files' = OpenForWrite(files, PARSER_PATH)
    /\ log' = Append(log, "open")
    /\ pc' = "save_write"
    /\ UNCHANGED <<env_vars, target, pdf_text, loop_vars, is_initial, prompt, llm_output,
                   generated_code, result, output, console, exit_code, outcome, proc, hist,
                   llm_failed, writes>>

\* Lines 92-95, 214: save_parser writes the artifact and closes it.
SaveWrite ==
    /\ pc = "save_write"
    /\ files' = WriteAndClose(files, PARSER_PATH, final_code(generated_code))
    /\ log' = Append(log, "write")
    /\ writes' = Append(writes, [path |-> PARSER_PATH, code |-> generated_code])
    /\ pc' = "run_test"
    /\ UNCHANGED <<env_vars, target, pdf_text, loop_vars, is_initial, prompt, llm_output,
                   generated_code, result, output, console, exit_code, outcome, proc, hist,
                   llm_failed>>

\* Lines 217-218, 100-115: the validator subprocess runs to completion, or
\* subprocess.run raises (OSError when the interpreter cannot be started,
\* UnicodeDecodeError when the captured bytes are not text): nothing catches the
\* exception, it ends the process with a traceback and status 1.  A subprocess
\* that ran has loaded the artifact of the target (test_parser_template.py lines
\* 17-29) and left its cache; same_second says whether the artifact was written
\* in the second of the source the cache was compiled from.
RunTest ==
    /\ pc = "run_test"
    /\ log' = Append(log, "test")
    /\ \/ /\ \E completed \in CompletedProcesses, same_second \in BOOLEAN :
               /\ proc' = completed
               /\ result' = run_test_and_capture_output(completed)[1]
               /\ output' = run_test_and_capture_output(completed)[2]
               /\ files' = FilesAfterLoad(files, target, same_second)
               /\ hist' = Append(hist, [code     |-> generated_code,
                                        artifact |-> files[PARSER_PATH],
                                        loaded   |-> TestParserPath(target),
                                        executed |-> ExecutedSource(files, target, same_second),
                                        verdict  |-> run_test_and_capture_output(completed)[1],
                                        output   |-> run_test_and_capture_output(completed)[2]])
          /\ pc' = "observe"
          /\ UNCHANGED <<console, exit_code, outcome>>
       \/ /\ Exit(1, "CRASHED", <<"Traceback (most recent call last):">>)
          /\ \E started, same_second \in BOOLEAN :
                files' = IF started THEN FilesAfterLoad(files, target, same_second) ELSE files
          /\ UNCHANGED <<proc, result, output, hist>>
    /\ UNCHANGED <<env_vars, target, pdf_text, loop_vars, is_initial, prompt,
                   llm_output, generated_code, writes, llm_failed>>

\* A variant of Observe: the return after the success report is missing.
Observe_RetriesOnPass ==
    /\ pc = "observe"
    /\ console' = IF result = "PASS" THEN Append(console, "AGENT SUCCESS") ELSE console
    /\ error_trace' = output
    /\ previous_code' = generated_code
    /\ attempts' = attempts + 1
    /\ pc' = "loop"
    /\ UNCHANGED <<exit_code, outcome>>
    /\ UNCHANGED <<env_vars, files, target, pdf_text, is_initial, prompt, llm_output,
                   generated_code, result, output, log, proc, hist, writes, llm_failed>>

\* A variant of Observe: the diagnostic of the first failure is kept, later ones dropped.
Observe_KeepsFirstTrace ==
    /\ pc = "observe"
    /\ IF result = "PASS"
       THEN /\ Exit(0, "SUCCESS", <<"AGENT SUCCESS">>)
            /\ UNCHANGED loop_vars
       ELSE /\ error_trace' = IF error_trace = "" THEN output ELSE error_trace
            /\ previous_code' = generated_code
            /\ attempts' = attempts + 1
            /\ pc' = "loop"
            /\ UNCHANGED <<console, exit_code, outcome>>
    /\ UNCHANGED <<env_vars, files, target, pdf_text, is_initial, prompt, llm_output,
                   generated_code, result, output, log, proc, hist, writes, llm_failed>>

\* A variant of Observe: the attempt is counted before the verdict is looked at.
Observe_CountsPass ==
    /\ pc = "observe"
    /\ attempts' = attempts + 1
    /\ IF result = "PASS"
       THEN /\ Exit(0, "SUCCESS", <<"AGENT SUCCESS">>)
            /\ UNCHANGED <<previous_code, error_trace>>
       ELSE /\ error_trace' = output
            /\ previous_code' = generated_code
            /\ pc' = "loop"
            /\ UNCHANGED <<console, exit_code, outcome>>
    /\ UNCHANGED <<env_vars, files, target, pdf_text, is_initial, prompt, llm_output,
                   generated_code, result, output, log, proc, hist, writes, llm_failed>>

\* Lines 221-231: success returns; failure becomes the next attempt's feedback.
Observe ==
    /\ pc = "observe"
    /\ IF result = "PASS"
       THEN /\ Exit(0, "SUCCESS", <<"AGENT SUCCESS: Parser " \o BT \o PARSER_PATH \o BT \o " passed all tests (T4).">>)
            /\ UNCHANGED loop_vars
       ELSE /\ error_trace' = output
            /\ previous_code' = generated_code
            /\ attempts' = attempts + 1
            /\ pc' = "loop"
            /\ UNCHANGED <<console, exit_code, outcome>>
    /\ UNCHANGED <<env_vars, files, target, pdf_text, is_initial, prompt, llm_output,
                   generated_code, result, output, log, proc, hist, writes, llm_failed>>

\* Lines 233-236, 248: the final report; run_agent returns and the process ends.
Final ==
    /\ pc = "final"
    /\ Exit(0, outcome, <<"AGENT FAILURE: Failed to generate a correct parser after "
                          \o ToString(MAX_ATTEMPTS) \o " attempts.">>)
    /\ UNCHANGED <<env_vars, files, target, pdf_text, loop_vars, is_initial, prompt,
                   llm_output, generated_code, result, output, log, proc, hist, writes, llm_failed>>

Next ==
    \/ Main
    \/ CheckFiles
    \/ ReadPdf
    \/ LoopTest
    \/ Generate
    \/ CheckOutput
    \/ SaveOpen
    \/ SaveWrite
    \/ RunTest
    \/ Observe
    \/ Final

Spec == Init /\ [][Next]_vars

\* The process is sequential and every call it makes returns or raises: while a
\* statement is left to execute, one is executed.
FairSpec == Spec /\ WF_vars(Next)

(***************************************************************************)
(* custom_parsers/icici_parser.py run on its own: parse applied to the     *)
(* tables of a statement.                                                  *)
(***************************************************************************)
\* The state of agent.py: what run_test_and_capture_output leaves alone, and all.
agent_rest == <<argv, environ, files, target, pdf_text, loop_vars, is_initial, prompt,
                llm_output, generated_code, console, exit_code, outcome, log, hist,
                writes, llm_failed>>

agent_vars == <<agent_rest, result, output, proc>>

AgentIdle ==
    /\ argv = <<>>
    /\ environ = <<>>
    /\ files = <<>>
    /\ AgentFresh

ParseInit ==
    /\ pc = "parse"
    /\ pdf_tables \in Tables
    /\ df = <<>>
    /\ AgentIdle
    /\ ScriptIdle

\* The call parse(pdf_path) and its return.
Parse ==
    /\ pc = "parse"
    /\ df' = parse(pdf_tables)
    /\ pc' = "parsed"
    /\ UNCHANGED <<agent_vars, pdf_tables, script_vars>>

ParseNext == Parse

ParseSpec == ParseInit /\ [][ParseNext]_vars

(***************************************************************************)
(* tests/test_parser_template.py run as the subprocess of                  *)
(* run_test_and_capture_output (agent.py lines 98-115), which then gives   *)
(* its verdict.                                                            *)
(***************************************************************************)
ScriptInit ==
    /\ pc = "script_main"
    /\ script_argv \in ScriptCommandLines
    /\ artifact \in Artifacts
    /\ expected_csv \in ExpectedCsvs
    /\ pdf_tables \in Tables
    /\ df = <<>>
    /\ df_actual = <<>>
    /\ script_stdout = ""
    /\ marker_printed = FALSE
    /\ AgentIdle

\* The script's process ends with a status, after printing text to stdout; err is
\* what the interpreter wrote to stderr.
ScriptExit(code, text, err) ==
    /\ script_stdout' = script_stdout \o text
    /\ proc' = [returncode |-> code, stdout |-> script_stdout \o text, stderr |-> err]
    /\ pc' = "script_exited"

\* Lines 109-114 and 14-19.
ScriptMain ==
    /\ pc = "script_main"
    /\ IF Len(script_argv) < 1
       THEN ScriptExit(1, USAGE, "")
       ELSE /\ script_stdout' = script_stdout \o RUNNING_TEST(script_argv[1])
            /\ pc' = "script_load"
            /\ UNCHANGED proc
    /\ UNCHANGED <<agent_rest, result, output, parse_vars, script_argv, artifact,
                   expected_csv, df_actual, marker_printed>>

\* Lines 21-33: the parser module is loaded.  SystemExit is caught nowhere and
\* ends the process with its code.  An AssertionError goes to the handler of line
\* 93, any other Exception to that of line 103; each prints its heading and then
\* raises UnboundLocalError itself, which ends the process with status 1.
ScriptLoad ==
    /\ pc = "script_load"
    /\ IF artifact.at = "load" /\ artifact.kind = "exits"
       THEN ScriptExit(artifact.code, artifact.prints, "")
       ELSE IF artifact.at = "load" /\ artifact.kind = "asserts"
       THEN ScriptExit(1, artifact.prints \o FAIL_HEADING \o EXPECTED_HEADING,
                       UnboundInAssertionHandler(LoadTraceback(artifact, script_argv[1])))
       ELSE IF artifact.at = "load" /\ artifact.kind = "raises"
       THEN ScriptExit(1, artifact.prints \o RUNTIME_HEADING,
                       UnboundInRuntimeHandler(LoadTraceback(artifact, script_argv[1])))
       ELSE IF artifact.kind = "no_parse"
       THEN ScriptExit(1, artifact.prints \o RUNTIME_HEADING,
                       UnboundInRuntimeHandler(NoParseTraceback(script_argv[1])))
       ELSE /\ pc' = "script_run"
            /\ UNCHANGED <<script_stdout, proc>>
    /\ UNCHANGED <<agent_rest, result, output, parse_vars, script_argv, artifact,
                   expected_csv, df_actual, marker_printed>>

\* Line 36: parse is called.
ScriptRun ==
    /\ pc = "script_run"
    /\ IF artifact.kind = "exits"
       THEN /\ ScriptExit(artifact.code, artifact.prints, "")
            /\ UNCHANGED df_actual
       ELSE IF artifact.kind = "asserts"
       THEN /\ ScriptExit(1, artifact.prints \o FAIL_HEADING \o EXPECTED_HEADING,
                          UnboundInAssertionHandler(CallTraceback(artifact, script_argv[1])))
            /\ UNCHANGED df_actual
       ELSE IF artifact.kind = "raises"
       THEN /\ ScriptExit(1, artifact.prints \o RUNTIME_HEADING,
                          UnboundInRuntimeHandler(CallTraceback(artifact, script_argv[1])))
            /\ UNCHANGED df_actual
       ELSE /\ df_actual' = parse(pdf_tables)
            /\ pc' = "script_compare"
            /\ UNCHANGED <<script_stdout, proc>>
    /\ UNCHANGED <<agent_rest, result, output, parse_vars, script_argv, artifact,
                   expected_csv, marker_printed>>

\* Lines 39-106: the frames are standardized and compared.  Line 59 is reached in
\* every such run and its warning comes first on stderr.  A zero amount raises
\* TypeError at line 70 or 72 and the handler of line 103 ends as in ScriptLoad;
\* equal frames give the marker line and the return of run_test; a mismatch is
\* reported by the handler of line 93, which ends with sys.exit(1).
ScriptCompare ==
    /\ pc = "script_compare"
    /\ \E warning \in DatetimeWarnings :
          IF StandardizationRaisesAt(expected_csv, df_actual) # 0
          THEN /\ \E pandas_frames \in PandasFrames :
                     ScriptExit(1, RUNTIME_HEADING,
                                warning \o UnboundInRuntimeHandler(
                                    TypeErrorTraceback(
                                        StandardizationRaisesAt(expected_csv, df_actual),
                                        pandas_frames)))
               /\ UNCHANGED marker_printed
          ELSE IF FramesEqual(expected_csv, df_actual)
          THEN /\ ScriptExit(0, SUCCESS_LINE, warning)
               /\ marker_printed' = TRUE
          ELSE /\ \E expected_head \in HeadTexts, actual_head \in HeadTexts,
                     pandas_tail \in PandasAssertionTails :
                     ScriptExit(1, FailReport(expected_head, actual_head, pandas_tail),
                                warning)
               /\ UNCHANGED marker_printed
    /\ UNCHANGED <<agent_rest, result, output, parse_vars, script_argv, artifact,
                   expected_csv, df_actual>>

\* agent.py lines 109-115: the verdict of the controller on the ended subprocess.
ControllerVerdict ==
    /\ pc = "script_exited"
    /\ result' = run_test_and_capture_output(proc)[1]
    /\ output' = run_test_and_capture_output(proc)[2]
    /\ pc' = "verdict"
    /\ UNCHANGED <<agent_rest, proc, parse_vars, script_vars>>

ScriptNext ==
    \/ ScriptMain
    \/ ScriptLoad
    \/ ScriptRun
    \/ ScriptCompare
    \/ ControllerVerdict

ValidatorSpec == ScriptInit /\ [][ScriptNext]_vars

(***************************************************************************)
(* Properties.                                                             *)
(***************************************************************************)
\* How often an external operation was performed so far.
Count(op) == Cardinality({i \in DOMAIN log : log[i] = op})

\* The dependency preamble, as the artifact file has to begin.
PREAMBLE == "import pandas as pd\nimport pdfplumber\nimport re\n\n"

\* C1: if the validator returns FAIL on the first k-1 cycles and PASS on cycle k
\* (k in 1..MAX_ATTEMPTS), the run has done exactly k generate/write/validate
\* cycles, starts no further one, ends in SUCCESS, and the attempt counter is k-1.
C1_PassOnCycleKStops ==
    \A k \in 1..MAX_ATTEMPTS :
        (/\ Len(hist) >= k
         /\ hist[k].verdict = "PASS"
         /\ \A j \in 1..(k - 1) : hist[j].verdict = "FAIL")
        => /\ Len(hist) = k
           /\ Count("llm") = k
           /\ Count("write") = k
           /\ Count("test") = k
           /\ attempts = k - 1
           /\ pc \in {"observe", "done"}
           /\ pc = "done" => (outcome = "SUCCESS" /\ Contains(console[Len(console)], "AGENT SUCCESS"))

\* A run that passed on its third cycle.
C1_Witness ==
    /\ pc = "done"
    /\ outcome = "SUCCESS"
    /\ Len(hist) = 3
    /\ hist[1].verdict = "FAIL" /\ hist[2].verdict = "FAIL" /\ hist[3].verdict = "PASS"
    /\ attempts = 2

\* C2: when every model answer is usable and every validator run returned FAIL, the run does
\* exactly MAX_ATTEMPTS generate/write/validate cycles and ends EXHAUSTED with the
\* failure report; and EXHAUSTED is reached in no other way.
C2_AlwaysFailExhausts ==
    /\ (/\ pc = "done"
        /\ outcome \notin {"USAGE_ERROR", "CONFIG_ERROR", "ABORTED", "CRASHED"}
        /\ \A i \in DOMAIN hist : hist[i].verdict = "FAIL")
       => /\ outcome = "EXHAUSTED"
          /\ Contains(console[Len(console)], "AGENT FAILURE")
    /\ outcome = "EXHAUSTED"
       => /\ Len(hist) = MAX_ATTEMPTS
          /\ \A i \in DOMAIN hist : hist[i].verdict = "FAIL"
          /\ Count("llm") = MAX_ATTEMPTS
          /\ Count("write") = MAX_ATTEMPTS
          /\ Count("test") = MAX_ATTEMPTS
          /\ attempts = MAX_ATTEMPTS

\* A finished run whose three verdicts were all FAIL.
C2_Witness ==
    /\ pc = "done"
    /\ outcome = "EXHAUSTED"
    /\ Len(hist) = 3
    /\ \A i \in DOMAIN hist : hist[i].verdict = "FAIL"

\* C3: whenever a generation is under way, the feedback context is empty (attempt
\* 0) or is the code and the diagnostic of the attempt just before, and the prompt
\* built from it carries exactly those in its feedback section.
C3_FeedbackIsPrecedingAttempt ==
    pc \in {"generate", "check_output"} =>
        /\ Len(hist) = attempts
        /\ IF attempts = 0
           THEN previous_code = "" /\ error_trace = ""
           ELSE previous_code = hist[attempts].code /\ error_trace = hist[attempts].output
        /\ (pc = "check_output" /\ attempts = 0) => ~Contains(prompt, "PREVIOUS CODE")
        /\ (pc = "check_output" /\ attempts > 0) =>
              /\ Contains(prompt, "PREVIOUS CODE (FAILED):\n" \o FENCE \o "python\n"
                                   \o hist[attempts].code \o "\n" \o FENCE)
              /\ Contains(prompt, "ERROR TRACE (OBSERVATION):\n" \o FENCE \o "\n"
                                   \o hist[attempts].output \o "\n" \o FENCE)

\* The third attempt's prompt, after two failures with different codes and
\* different diagnostics: it carries the second's diagnostic and not the first's.
C3_Witness ==
    /\ pc = "check_output"
    /\ attempts = 2
    /\ hist[1].code # hist[2].code
    /\ hist[1].output # hist[2].output
    /\ Contains(prompt, hist[2].output)
    /\ ~Contains(prompt, hist[1].output)

\* C4: when the model call failed or the extracted code is empty, the run goes to
\* ABORTED without writing the artifact or running the validator and without
\* touching the artifact, the counter or the feedback context; once ABORTED, no
\* model call, write or validation follows.
C4_AbortWritesNothingAndIsFinal ==
    /\ [][(pc = "check_output" /\ (llm_failed \/ Strip(extract_python_code(llm_output)) = ""))
            => /\ pc' = "final"
               /\ outcome' = "ABORTED"
               /\ files' = files
               /\ log' = log
               /\ loop_vars' = loop_vars]_vars
    /\ [][outcome = "ABORTED"
            => /\ outcome' = "ABORTED"
               /\ pc' = "done"
               /\ files' = files
               /\ log' = log
               /\ loop_vars' = loop_vars]_vars
    /\ [](outcome = "ABORTED"
            => /\ log[Len(log)] = "llm"
               /\ Count("write") = attempts
               /\ Count("test") = attempts)

\* An abort on empty code in the second attempt: two attempts of the budget are
\* left, and the artifact on disk is still the first attempt's.
C4_Witness ==
    /\ pc = "done"
    /\ outcome = "ABORTED"
    /\ ~llm_failed
    /\ attempts = 1
    /\ Count("llm") = 2
    /\ files[PARSER_PATH] = PREAMBLE \o previous_code

\* C5: the exit status is 0 after SUCCESS and 1 after missing prerequisites, after
\* ABORTED and after EXHAUSTED.
C5_ExitStatusFollowsOutcome ==
    (pc = "done" /\ outcome \in {"SUCCESS", "CONFIG_ERROR", "ABORTED", "EXHAUSTED"})
        => exit_code = (IF outcome = "SUCCESS" THEN 0 ELSE 1)

\* C6: the verdict is PASS exactly when the subprocess exited with 0 and the marker
\* is in stdout followed by stderr; otherwise it is FAIL; the diagnostic is all of
\* the captured output.
C6_PassIffZeroExitAndMarker ==
    pc = "observe" =>
        /\ result \in {"PASS", "FAIL"}
        /\ (result = "PASS") <=> (/\ proc.returncode = 0
                                  /\ Contains(proc.stdout \o proc.stderr, "SUCCESS"))
        /\ output = proc.stdout \o proc.stderr
        /\ hist[Len(hist)].verdict = result
        /\ hist[Len(hist)].output = output

\* A validator that exited non-zero with the marker in its output: FAIL.
C6_Witness ==
    /\ pc = "observe"
    /\ proc.returncode # 0
    /\ Contains(output, "SUCCESS")
    /\ result = "FAIL"

\* C7: every artifact write of a run goes to the path derived from the run's
\* target, custom_parsers/<target>_parser.py, the file the validator loads.
C7_WritesGoToTargetsPath ==
    \A i \in DOMAIN writes : writes[i].path = TestParserPath(target)

\* C8: the operations of the iterations come in the order model call, artifact
\* write (open, write), validation, once each per iteration; the validator is
\* started after the write completed and finds the complete artifact.
C8_CallWriteTestInOrder ==
    /\ \A i \in DOMAIN log : log[i] = <<"llm", "open", "write", "test">>[((i - 1) % 4) + 1]
    /\ pc = "observe" => Len(log) = 4 * Len(hist)
    /\ pc = "run_test" => /\ log[Len(log)] = "write"
                          /\ files[PARSER_PATH] = PREAMBLE \o generated_code
    /\ \A i \in DOMAIN hist : hist[i].artifact = PREAMBLE \o hist[i].code

\* The second iteration's validator has run.
C8_Witness ==
    /\ pc = "observe"
    /\ Len(hist) = 2
    /\ Len(log) = 8
    /\ hist[2].artifact = PREAMBLE \o generated_code

\* C9: outside a save_parser call, once a write has happened the artifact file is
\* the preamble followed by the code of the last write and nothing else; after a
\* FAIL verdict it is the complete artifact of the attempt that failed.
C9_ArtifactIsPreambleAndLastCode ==
    /\ (writes # <<>> /\ pc # "save_write")
          => files[writes[Len(writes)].path] = PREAMBLE \o writes[Len(writes)].code
    /\ (pc = "loop" /\ attempts > 0)
          => files[PARSER_PATH] = PREAMBLE \o hist[attempts].code

\* Two attempts with different codes have been written and both failed.
C9_Witness ==
    /\ pc = "loop"
    /\ attempts = 2
    /\ writes[1].code # writes[2].code
    /\ files[PARSER_PATH] = PREAMBLE \o writes[2].code

\* C10: the attempt counter stays within 0..MAX_ATTEMPTS, never decreases, changes
\* only by +1 and only on a FAIL verdict, and a generation is started only while
\* it is below MAX_ATTEMPTS.
C10_CounterBoundedAndMonotone ==
    /\ [](attempts >= 0 /\ attempts <= MAX_ATTEMPTS)
    /\ [][/\ attempts' >= attempts
          /\ attempts' # attempts => /\ attempts' = attempts + 1
                                     /\ pc = "observe"
                                     /\ result = "FAIL"]_vars
    /\ [][pc' = "generate" => attempts < MAX_ATTEMPTS /\ attempts' = attempts]_vars

\* The counter has reached the budget and the loop was left.
C10_Witness ==
    /\ pc = "final"
    /\ attempts = MAX_ATTEMPTS
    /\ outcome = "EXHAUSTED"

\* C11: the extracted code is the trimmed interior of the first fenced block
\* tagged python (an opening fence with python and a line feed, up to the nearest
\* fence after it) when the response has one, and the trimmed response otherwise;
\* it may be empty.
C11_ExtractsFirstBlockOrAll ==
    (\/ pc \in {"save_open", "save_write", "run_test", "observe"}
     \/ (pc = "final" /\ outcome = "ABORTED" /\ ~Contains(llm_output, "LLM_API_ERROR")))
    => LET r == llm_output
           closers == {j \in 1..Len(r) : StartsAt(r, FENCE, j)}
           opens == {i \in 1..Len(r) : /\ StartsAt(r, FENCE \o "python\n", i)
                                       /\ \E j \in closers : j >= i + 10}
           first == CHOOSE i \in opens : \A k \in opens : i <= k
           after == {j \in closers : j >= first + 10}
           close == CHOOSE j \in after : \A k \in after : j <= k
       IN  /\ IF opens = {}
              THEN generated_code = Strip(r)
              ELSE generated_code = Strip(SubSeq(r, first + 10, close - 1))
           /\ generated_code # "" =>
                 /\ ~IsSpace(SubSeq(generated_code, 1, 1))
                 /\ ~IsSpace(SubSeq(generated_code, Len(generated_code), Len(generated_code)))
           /\ pc = "final" <=> generated_code = ""

\* A response with two fenced blocks, padded inside: the first one's interior is
\* extracted.
C11_Witness ==
    /\ pc = "save_open"
    /\ Cardinality({i \in 1..Len(llm_output) : StartsAt(llm_output, FENCE_OPEN, i)}) = 2
    /\ Contains(llm_output, "None\n" \o FENCE)
    /\ generated_code = "def parse(pdf_path): return None"

\* C12: with the credential unset or empty, or with a fixture file of the run's
\* target missing (the sample data/<target>/<target>_sample.pdf, the reference
\* data/<target>/<target>_expected.csv, the validator script), the run never gets
\* past the checks: it calls the model, writes and validates nothing, and it ends
\* with a non-zero exit status.
C12_MissingPrerequisiteStopsBeforeLoop ==
    (\/ "GEMINI_API_KEY" \notin DOMAIN environ
     \/ environ["GEMINI_API_KEY"] = ""
     \/ /\ argv # <<>>
        /\ \E p \in {TestPdfPath(Lower(argv[2])), TestCsvPath(Lower(argv[2])), TEST_SCRIPT} :
              p \notin DOMAIN files)
    => /\ pc \in {"main", "run_agent", "read_pdf", "done"}
       /\ log = <<>>
       /\ writes = <<>>
       /\ hist = <<>>
       /\ pc = "done" => exit_code > 0

\* C13: every invocation of the validator gives a verdict, also when the
\* subprocess cannot be started or its output cannot be read, and the run goes on
\* instead of ending in a traceback.
C13_ValidatorRunnerNeverRaises ==
    /\ Count("test") = Len(hist)
    /\ outcome # "CRASHED"

\* What the prompt carries apart from the target: is_initial is true exactly
\* on attempt 0; the prompt carries the column list and the context sample; a
\* refinement prompt carries the previous code and the diagnostic verbatim; an
\* initial prompt is the same whatever code and diagnostic are passed, and
\* carries neither.
C14_PromptBody ==
    /\ is_initial = (attempts = 0)
    /\ Contains(prompt, IF files[CSV_PATH].readable
                        THEN "['Date', 'Description', 'Debit Amt', 'Credit Amt', 'Balance']"
                        ELSE "['Date', 'Description', 'Withdrawal', 'Deposit', 'Balance']")
    /\ Contains(prompt, "--- START SAMPLE ---\n" \o pdf_text \o "\n--- END SAMPLE ---")
    /\ ~is_initial => /\ previous_code # ""
                      /\ Contains(prompt, previous_code)
                      /\ Contains(prompt, error_trace)
    /\ is_initial =>
          \A c \in {"def parse(pdf_path): return None"}, e \in ValidatorStdouts :
             /\ generate_prompt(target, pdf_text, files[CSV_PATH], TRUE, c, e) = prompt
             /\ ~Contains(prompt, c)
             /\ ~Contains(prompt, e)

\* C14: every prompt the run builds embeds the target identifier, which line 131
\* writes in upper case, the schema column list and the context sample; with
\* is_initial false it also embeds previous_code and error_trace verbatim, with
\* is_initial true neither, whatever is passed for them; and is_initial is true
\* exactly on attempt 0.
C14_PromptEmbedsUpperCaseTarget ==
    pc = "check_output" =>
        /\ C14_PromptBody
        /\ target = "icici" => Contains(prompt, "- **Target Bank:** ICICI\n")
        /\ target = "sbi" => Contains(prompt, "- **Target Bank:** SBI\n")

\* The refinement prompt of a run for sbi, built after a failure.
C14_Witness ==
    /\ pc = "check_output"
    /\ target = "sbi"
    /\ attempts = 1
    /\ ~is_initial
    /\ Contains(prompt, "SBI")
    /\ Contains(prompt, "PREVIOUS CODE (FAILED):\n" \o FENCE \o "python\n" \o previous_code)

\* C15: every Withdrawal and Deposit value of the frame parse returns is NaN or a
\* strictly positive number.
C15_AmountsPositiveOrMissing ==
    pc = "parsed" =>
        \A i \in DOMAIN df :
            /\ df[i].Withdrawal.nan \/ df[i].Withdrawal.cents > 0
            /\ df[i].Deposit.nan \/ df[i].Deposit.cents > 0

\* C16: a run that enters the loop ends, in exactly one of SUCCESS, ABORTED and
\* EXHAUSTED (or in the crash of C13, where a validator run did not return); it
\* makes at most MAX_ATTEMPTS iterations; an iteration after the first is started
\* only after a FAIL verdict; and nothing runs once the end is reached.
C16_LoopTerminates ==
    /\ (pc = "loop") ~> (/\ pc = "done"
                         /\ outcome \in {"SUCCESS", "ABORTED", "EXHAUSTED", "CRASHED"})
    /\ [](/\ Count("llm") <= MAX_ATTEMPTS
          /\ Len(hist) <= MAX_ATTEMPTS
          /\ outcome = "CRASHED" => Count("test") = Len(hist) + 1)
    /\ [][pc = "loop" /\ pc' = "generate" /\ hist # <<>>
              => hist[Len(hist)].verdict = "FAIL" /\ Count("llm") = Len(hist)]_vars
    /\ [][pc # "done"]_vars

\* A run that ended ABORTED in its second iteration, after one FAIL.
C16_Witness ==
    /\ pc = "done"
    /\ outcome = "ABORTED"
    /\ Len(hist) = 1
    /\ Count("llm") = 2
    /\ hist[1].verdict = "FAIL"

\* C17: the validator script exits with status zero exactly when it printed its
\* marker line, which it prints only after the parser was loaded and run and the
\* frames compared equal; a missing argument and an exception raised by the
\* artifact give a non-zero status; and the verdict of the controller is PASS
\* exactly when the comparison succeeded.
C17_ZeroExitIffComparedEqual ==
    pc = "verdict" =>
        /\ (proc.returncode = 0) <=> marker_printed
        /\ marker_printed => /\ script_argv # <<>>
                             /\ artifact.kind = "parser"
                             /\ StandardizationRaisesAt(expected_csv, df_actual) = 0
                             /\ FramesEqual(expected_csv, df_actual)
        /\ script_argv = <<>> => proc.returncode # 0
        /\ (/\ script_argv # <<>>
            /\ artifact.kind \in {"raises", "asserts", "exits", "no_parse"})
           => proc.returncode # 0
        /\ (result = "PASS") <=> marker_printed

\* C18: in every iteration the validator loads the file the artifact writer wrote
\* in that iteration, and the fixtures the controller checks and reads are those
\* of the run's target, the ones the validator uses.
C18_ValidatorLoadsWhatWasWritten ==
    /\ \A i \in DOMAIN hist : /\ i \in DOMAIN writes
                              /\ hist[i].loaded = writes[i].path
                              /\ hist[i].code = writes[i].code
    /\ pc \notin {"main", "run_agent", "done"}
          => /\ PDF_PATH = TestPdfPath(target)
             /\ CSV_PATH = TestCsvPath(target)

\* C19: the run takes the API-error abort only when the model call failed; a
\* response the call returned is passed on to the code extractor whatever its text.
C19_ApiErrorAbortOnlyOnFailedCall ==
    /\ (\E i \in DOMAIN console : Contains(console[i], "LLM failed to respond"))
       => llm_failed
    /\ (pc \in {"save_open", "final"} /\ ~llm_failed)
       => generated_code = extract_python_code(llm_output)

\* C20: the report that no correct parser was produced after MAX_ATTEMPTS attempts
\* is printed only in EXHAUSTED, after exactly MAX_ATTEMPTS cycles that all
\* returned FAIL; a run that ends ABORTED does not print it.
C20_FailureReportOnlyWhenExhausted ==
    (/\ pc = "done"
     /\ console # <<>>
     /\ Contains(console[Len(console)], "AGENT FAILURE"))
    => /\ outcome = "EXHAUSTED"
       /\ Len(hist) = MAX_ATTEMPTS
       /\ \A i \in DOMAIN hist : hist[i].verdict = "FAIL"
====
